---- MODULE Spec2Model ----
(***************************************************************************)
(* The PPTT parser of drivers/acpi/pptt.c as a state machine.              *)
(*                                                                         *)
(* The table is a byte image: every field is read from bytes at the offset *)
(* the C structure gives it (little endian), so a record that declares a   *)
(* length shorter than its fields, or a link that lands in the middle of   *)
(* another record, reads whatever bytes lie there.  One public query runs  *)
(* per behaviour, one loop iteration of the code per step.                 *)
(***************************************************************************)
EXTENDS Integers, Sequences, FiniteSets, TLC

VARIABLES
    mem,            \* the bytes at table_hdr, table_hdr+1, ... (0-based offset o is mem[o+1])
    tailw,          \* the u32 that repeats in the words lying after the image
    acpi_cpu_id,    \* get_acpi_id_for_cpu(cpu)
    leaves,         \* get_cpu_cacheinfo(cpu)->info_list
    query,          \* the public entry point that is running
    level_arg,      \* its level argument (topology queries)
    flag,           \* its flag argument (topology queries)
    pc,             \* where the code stands
    entry,          \* acpi_find_processor_node: entry
    lentry,         \* acpi_pptt_leaf_node: entry
    leaf,           \* what acpi_pptt_leaf_node returned
    node,           \* what acpi_find_processor_node returned
    cpu_node,       \* the processor node a walk stands on
    total_levels,   \* acpi_process_node / acpi_find_cache_node: total_levels
    number_of_levels, \* acpi_find_cache_level: number_of_levels
    resource,       \* acpi_find_cache_level: resource
    ret,            \* acpi_find_cache_level: ret (*found of the walker)
    local_level,    \* acpi_pptt_walk_cache: local_level
    cache,          \* acpi_pptt_walk_cache: cache
    found,          \* acpi_find_cache_node: found
    owner,          \* acpi_find_cache_node: *node
    index,          \* cache_setup_acpi_cpu: index
    level,          \* acpi_find_processor_package_id: level
    retval,         \* what the public query returned
    gets,           \* successful acpi_get_table() calls
    puts,           \* acpi_put_table() calls
    oob,            \* some byte at an offset >= table_hdr->length has been read
    dups,           \* pr_err("Found duplicate cache level/type ...") calls
    first_hit,      \* the first record the walker matched during the current acpi_find_cache_level call
    hits,           \* the records the walker matched during that call
    level_in,       \* *starting_level when the last acpi_find_cache_level call began
    f_length,       \* resolver check: table_hdr->length
    f_ref,          \* resolver check: pptt_ref
    f_elen,         \* resolver check: the byte at entry->length
    f_ret,          \* resolver check: "none", "null" or "entry"
    f_read,         \* resolver check: entry->length has been read
    tick            \* the parity of the steps taken: a turn of a loop that changes nothing else is still a step

vars == << mem, tailw, acpi_cpu_id, leaves, query, level_arg, flag, pc,
           entry, lentry, leaf, node, cpu_node, total_levels, number_of_levels,
           resource, ret, local_level, cache, found, owner, index, level,
           retval, gets, puts, oob, dups, first_hit, hits, level_in,
           f_length, f_ref, f_elen, f_ret, f_read, tick >>

----
(* Structure layout (ACPI 6.2 PPTT, include/acpi/actbl2.h) and the values  *)
(* of the macros the code uses.                                            *)

NULL == 0

ACPI_TABLE_PPTT_SIZE == 36       \* sizeof(struct acpi_table_pptt)
SUBTABLE_HEADER_SIZE == 2        \* sizeof(struct acpi_subtable_header)
PPTT_PROCESSOR_SIZE == 20        \* sizeof(struct acpi_pptt_processor)
PPTT_CACHE_SIZE == 24            \* sizeof(struct acpi_pptt_cache)
OFF_TABLE_LENGTH == 4            \* acpi_table_header.length
OFF_TYPE == 0                    \* acpi_subtable_header.type
OFF_LENGTH == 1                  \* acpi_subtable_header.length
OFF_FLAGS == 4                   \* acpi_pptt_processor.flags, acpi_pptt_cache.flags
OFF_PARENT == 8                  \* acpi_pptt_processor.parent
OFF_PROCESSOR_ID == 12           \* acpi_pptt_processor.acpi_processor_id
OFF_NUM_PRIV == 16               \* acpi_pptt_processor.number_of_priv_resources
OFF_NEXT_LEVEL == 8              \* acpi_pptt_cache.next_level_of_cache
OFF_SIZE == 12                   \* acpi_pptt_cache.size
OFF_NUM_SETS == 16               \* acpi_pptt_cache.number_of_sets
OFF_ASSOCIATIVITY == 20          \* acpi_pptt_cache.associativity
OFF_ATTRIBUTES == 21             \* acpi_pptt_cache.attributes
OFF_LINE_SIZE == 22              \* acpi_pptt_cache.line_size

ACPI_PPTT_TYPE_PROCESSOR == 0
ACPI_PPTT_TYPE_CACHE == 1
ACPI_PPTT_PHYSICAL_PACKAGE == 1
ACPI_PPTT_SIZE_PROPERTY_VALID == 1
ACPI_PPTT_NUMBER_OF_SETS_VALID == 2
ACPI_PPTT_ASSOCIATIVITY_VALID == 4
ACPI_PPTT_ALLOCATION_TYPE_VALID == 8
ACPI_PPTT_CACHE_TYPE_VALID == 16
ACPI_PPTT_WRITE_POLICY_VALID == 32
ACPI_PPTT_LINE_SIZE_VALID == 64
ACPI_PPTT_MASK_ALLOCATION_TYPE == 3
ACPI_PPTT_MASK_CACHE_TYPE == 12
ACPI_PPTT_MASK_WRITE_POLICY == 16
ACPI_PPTT_CACHE_READ_ALLOCATE == 0
ACPI_PPTT_CACHE_WRITE_ALLOCATE == 1
ACPI_PPTT_CACHE_RW_ALLOCATE == 2
ACPI_PPTT_CACHE_RW_ALLOCATE_ALT == 3
ACPI_PPTT_CACHE_TYPE_DATA == 0
ACPI_PPTT_CACHE_TYPE_INSTR == 4
ACPI_PPTT_CACHE_TYPE_UNIFIED == 8
ACPI_PPTT_CACHE_POLICY_WB == 0
ACPI_PPTT_CACHE_POLICY_WT == 16
PPTT_ABORT_PACKAGE == 255

\* include/linux/cacheinfo.h
CACHE_TYPE_INST == 1
CACHE_TYPE_DATA == 2
CACHE_TYPE_UNIFIED == 4
CACHE_WRITE_THROUGH == 1
CACHE_WRITE_BACK == 2
CACHE_READ_ALLOCATE == 4
CACHE_WRITE_ALLOCATE == 8

ENOENT == 2

----
(* Bounds of the model.                                                    *)

\* an int counts in -IntMax-1 .. IntMax and wraps, as the kernel's
\* -fno-strict-overflow int does at 2^31
IntMax == 15
\* the topology levels find_acpi_cpu_topology() is asked for: 0 .. MaxLevelArg
MaxLevelArg == 2
\* the words after the image that hold tailw; the words after those hold 0
TailWords == 4

----
(* Machine arithmetic.                                                     *)

Limb == 256 * 256

\* a u32 as two 16-bit limbs; x < 2^31 here
U32(x) == [hi |-> x \div Limb, lo |-> x % Limb]

\* a + n without wrap, as the 64-bit size_t sum of line 43 (c is the carry out of 32 bits)
Add64(a, n) ==
    LET lo == a.lo + n
        hi == a.hi + (lo \div Limb)
    IN  [c |-> hi \div Limb, hi |-> hi % Limb, lo |-> lo % Limb]

\* a + n as the u32 sum of line 48: the carry is lost
Add32(a, n) == [Add64(a, n) EXCEPT !.c = 0]

\* s > b for a sum s and a u32 b
Gt(s, b) == s.c > 0 \/ s.hi > b.hi \/ (s.hi = b.hi /\ s.lo > b.lo)

RECURSIVE BitAnd(_, _)
BitAnd(a, b) ==
    IF a = 0 \/ b = 0 THEN 0
    ELSE (a % 2) * (b % 2) + 2 * BitAnd(a \div 2, b \div 2)

RECURSIVE BitOr(_, _)
BitOr(a, b) ==
    IF a = 0 THEN b
    ELSE IF b = 0 THEN a
    ELSE (IF a % 2 = 1 \/ b % 2 = 1 THEN 1 ELSE 0) + 2 * BitOr(a \div 2, b \div 2)

\* x + 1 in an int
IntInc(x) == IF x = IntMax THEN 0 - IntMax - 1 ELSE x + 1

Max(a, b) == IF a < b THEN b ELSE a

----
(* Reading the table.                                                      *)

LE16(x) == << x % 256, (x \div 256) % 256 >>
LE32(x) == << x % 256, (x \div 256) % 256, (x \div 65536) % 256, (x \div 16777216) % 256 >>

\* the byte at table_hdr + o
B(o) ==
    IF o < Len(mem) THEN mem[o + 1]
    ELSE IF o < Len(mem) + 4 * TailWords THEN LE32(tailw)[((o - Len(mem)) % 4) + 1]
    ELSE 0

Rd8(o) == B(o)
Rd16(o) == B(o) + 256 * B(o + 1)
Rd32(o) == B(o) + 256 * B(o + 1) + 65536 * B(o + 2) + 16777216 * B(o + 3)

table_length == Rd32(OFF_TABLE_LENGTH)

type(e) == Rd8(e + OFF_TYPE)
length(e) == Rd8(e + OFF_LENGTH)
flags(e) == Rd32(e + OFF_FLAGS)
parent(e) == Rd32(e + OFF_PARENT)
acpi_processor_id(e) == Rd32(e + OFF_PROCESSOR_ID)
number_of_priv_resources(e) == Rd32(e + OFF_NUM_PRIV)
next_level_of_cache(e) == Rd32(e + OFF_NEXT_LEVEL)
size(e) == Rd32(e + OFF_SIZE)
number_of_sets(e) == Rd32(e + OFF_NUM_SETS)
associativity(e) == Rd8(e + OFF_ASSOCIATIVITY)
attributes(e) == Rd8(e + OFF_ATTRIBUTES)
line_size(e) == Rd16(e + OFF_LINE_SIZE)

\* the end offsets of the reads in S, some of which lies past the table
Past(S) == \E e \in S : e > table_length

----
(* The Subtable Resolver.                                                  *)

\* lines 40-44: the two checks made before entry->length is read
header_in_table(tl, pptt_ref) ==
    /\ ~(pptt_ref.hi = 0 /\ pptt_ref.lo < SUBTABLE_HEADER_SIZE)
    /\ ~Gt(Add64(pptt_ref, SUBTABLE_HEADER_SIZE), tl)

\* lines 34-52 over a table of length tl whose byte at pptt_ref + 1 is
\* entry_length: TRUE when entry is returned, FALSE when NULL is
subtable_in_table(tl, pptt_ref, entry_length) ==
    /\ header_in_table(tl, pptt_ref)
    /\ ~Gt(Add32(pptt_ref, entry_length), tl)

fetch_pptt_subtable(pptt_ref) ==
    IF subtable_in_table(U32(table_length), U32(pptt_ref), length(pptt_ref))
    THEN pptt_ref ELSE NULL

fetch_pptt_node(pptt_ref) == fetch_pptt_subtable(pptt_ref)

fetch_pptt_cache(pptt_ref) == fetch_pptt_subtable(pptt_ref)

\* the reads of fetch_pptt_subtable(pptt_ref), as end offsets
fetch_reads(pptt_ref) ==
    IF header_in_table(U32(table_length), U32(pptt_ref))
    THEN {pptt_ref + OFF_LENGTH + 1} ELSE {}

\* lines 68-81 without the test of the index against the resource count
acpi_get_pptt_resource_any_index(n, r) ==
    fetch_pptt_subtable(Rd32(n + PPTT_PROCESSOR_SIZE + 4 * r))

\* lines 68-81
acpi_get_pptt_resource(n, r) ==
    IF r >= number_of_priv_resources(n) THEN NULL
    ELSE fetch_pptt_subtable(Rd32(n + PPTT_PROCESSOR_SIZE + 4 * r))

resource_reads(n, r) ==
    {n + OFF_NUM_PRIV + 4} \cup
    (IF r >= number_of_priv_resources(n) THEN {}
     ELSE {n + PPTT_PROCESSOR_SIZE + 4 * r + 4}
          \cup fetch_reads(Rd32(n + PPTT_PROCESSOR_SIZE + 4 * r)))

----
(* The tables the queries run on.  Six records lie at fixed places after   *)
(* the header: three processor records (28 bytes: the fixed fields and two *)
(* resource references) and three cache records (24 bytes).  What a record *)
(* declares (its type, its length, its links) is free, so a table may be   *)
(* well formed or not.                                                     *)

PROC_BYTES == PPTT_PROCESSOR_SIZE + 2 * 4
AT_A == ACPI_TABLE_PPTT_SIZE
AT_B == AT_A + PROC_BYTES
AT_C == AT_B + PROC_BYTES
AT_X == AT_C + PROC_BYTES
AT_Y == AT_X + PPTT_CACHE_SIZE
AT_Z == AT_Y + PPTT_CACHE_SIZE
IMAGE_END == AT_Z + PPTT_CACHE_SIZE

Zeros(n) == [i \in 1..n |-> 0]

TableHeader(tl) == << 80, 80, 84, 84 >> \o LE32(tl) \o Zeros(ACPI_TABLE_PPTT_SIZE - 8)

ProcBytes(p) ==
    << p.t, p.len, 0, 0 >> \o LE32(p.flags) \o LE32(p.parent) \o LE32(p.id)
        \o LE32(p.nres) \o LE32(p.r0) \o LE32(p.r1)

CacheBytes(c) ==
    << c.t, c.len, 0, 0 >> \o LE32(c.flags) \o LE32(c.next) \o LE32(c.size)
        \o LE32(c.sets) \o << c.assoc, c.attr >> \o LE16(c.line)

Image(s) ==
    TableHeader(s.tl) \o ProcBytes(s.a) \o ProcBytes(s.b) \o ProcBytes(s.c)
        \o CacheBytes(s.x) \o CacheBytes(s.y) \o CacheBytes(s.z)

ALL_VALID ==
    ACPI_PPTT_SIZE_PROPERTY_VALID + ACPI_PPTT_NUMBER_OF_SETS_VALID
    + ACPI_PPTT_ASSOCIATIVITY_VALID + ACPI_PPTT_ALLOCATION_TYPE_VALID
    + ACPI_PPTT_CACHE_TYPE_VALID + ACPI_PPTT_WRITE_POLICY_VALID
    + ACPI_PPTT_LINE_SIZE_VALID

\* a core (id 1) under a cluster under a package, an L1 data cache on the
\* core, a unified L2 on the cluster, a unified L3 on the package
Base ==
    [ tl |-> IMAGE_END, tw |-> 0,
      a |-> [t |-> 0, len |-> 28, flags |-> 0, parent |-> AT_B, id |-> 1, nres |-> 1, r0 |-> AT_X, r1 |-> 0],
      b |-> [t |-> 0, len |-> 28, flags |-> 0, parent |-> AT_C, id |-> 2, nres |-> 1, r0 |-> AT_Y, r1 |-> 0],
      c |-> [t |-> 0, len |-> 28, flags |-> ACPI_PPTT_PHYSICAL_PACKAGE, parent |-> 0, id |-> 3, nres |-> 1, r0 |-> AT_Z, r1 |-> 0],
      x |-> [t |-> 1, len |-> 24, flags |-> ALL_VALID, next |-> 0, size |-> 16384, sets |-> 64, assoc |-> 4, attr |-> 18, line |-> 64],
      y |-> [t |-> 1, len |-> 24, flags |-> ALL_VALID, next |-> 0, size |-> 262144, sets |-> 512, assoc |-> 8, attr |-> 8, line |-> 64],
      z |-> [t |-> 1, len |-> 24, flags |-> ALL_VALID, next |-> 0, size |-> 1048576, sets |-> 1024, assoc |-> 16, attr |-> 8, line |-> 64] ]

\* every parent link, three assignments of ids; no resources
ForestShapes ==
    { [Base EXCEPT !.a.parent = pa, !.b.parent = pb, !.c.parent = pcc,
                   !.a.id = ids[1], !.b.id = ids[2], !.c.id = ids[3],
                   !.a.nres = 0, !.b.nres = 0, !.c.nres = 0] :
        pa \in {0, AT_A, AT_B, AT_C}, pb \in {0, AT_A, AT_B, AT_C}, pcc \in {0, AT_B, AT_C},
        ids \in { <<1, 2, 3>>, <<1, 1, 2>>, <<2, 1, 1>> } }

\* the core's resources and the cache chains
ResCfg ==
    { <<0, 0, 0>>, <<1, AT_X, 0>>, <<2, AT_X, AT_Y>>, <<2, AT_Y, AT_X>>, <<2, 4, AT_X>>,
      <<2, AT_B, AT_X>>, <<2, 1, AT_X>>, <<1, AT_X, AT_Y>>, <<2, AT_X, AT_X>>, <<3, AT_X, AT_Y>>, <<2, 130, AT_X>> }

CacheShapes ==
    { [Base EXCEPT !.a.nres = rc[1], !.a.r0 = rc[2], !.a.r1 = rc[3],
                   !.x.next = xn, !.y.next = yn, !.y.attr = ya] :
        rc \in ResCfg, xn \in {0, AT_Y, AT_Z, AT_X, AT_A}, yn \in {0, AT_Z, AT_X}, ya \in {18, 8} }

\* the validity flags and the attributes of the L1 cache
FlagShapes ==
    { [Base EXCEPT !.x.flags = xf, !.x.attr = xa] :
        xf \in {127, 16, 48, 24, 56, 17, 18, 20, 80, 111}, xa \in {18, 0, 1, 19} }

\* one record declaring a wrong length or an unknown type, a table length
\* that cuts the records, a link to the last record
MalformedShapes ==
    { [Base EXCEPT !.a.len = l] : l \in {0, 2, 8} }
    \cup { [Base EXCEPT !.b.len = l] : l \in {0, 2, 8} }
    \cup { [Base EXCEPT !.c.len = l] : l \in {0, 2, 8} }
    \cup { [Base EXCEPT !.x.len = l, !.x.t = t] : l \in {0, 2, 8}, t \in {0, 1, 2} }
    \cup { [Base EXCEPT !.y.len = l] : l \in {0, 2, 8} }
    \cup { [Base EXCEPT !.z.len = l, !.z.t = t] : l \in {0, 2, 8, 24}, t \in {0, 1, 2} }
    \cup { [Base EXCEPT !.tl = l] : l \in {36, 37, 38, 40, 100, 130, 190, 191, 216} }
    \cup { [Base EXCEPT !.c.parent = AT_Z, !.c.flags = 0, !.tw = w] : w \in {0, AT_A, AT_X} }

\* the cluster and the package name each other as parent, caches on all three
CycleShapes ==
    { [Base EXCEPT !.c.parent = AT_B, !.c.flags = f] : f \in {0, ACPI_PPTT_PHYSICAL_PACKAGE} }

Shapes == ForestShapes \cup CacheShapes \cup FlagShapes \cup MalformedShapes \cup CycleShapes

\* the cache-info slots a query is asked to fill: their type and level, and
\* the values probed before
Slot(t, l, probed) ==
    [ type |-> t, level |-> l,
      size |-> IF probed THEN 7 ELSE 0,
      coherency_line_size |-> IF probed THEN 8 ELSE 0,
      number_of_sets |-> IF probed THEN 9 ELSE 0,
      ways_of_associativity |-> IF probed THEN 10 ELSE 0,
      attributes |-> IF probed THEN CACHE_WRITE_BACK + CACHE_READ_ALLOCATE ELSE 0,
      firmware_node |-> NULL ]

LeafLists ==
    { << Slot(CACHE_TYPE_DATA, 1, TRUE), Slot(CACHE_TYPE_UNIFIED, 2, FALSE) >>,
      << Slot(CACHE_TYPE_DATA, 2, FALSE), Slot(CACHE_TYPE_INST, 1, TRUE) >> }

CpuIds == {1, 2}

----
(* The state before a query.                                               *)

NoResolverCheck ==
    /\ f_length = U32(0) /\ f_ref = U32(0) /\ f_elen = 0
    /\ f_ret = "none" /\ f_read = FALSE

Idle ==
    /\ query = "none" /\ level_arg = 0 /\ flag = 0 /\ pc = "idle"
    /\ entry = NULL /\ lentry = NULL /\ leaf = 0 /\ node = NULL /\ cpu_node = NULL
    /\ total_levels = 0 /\ number_of_levels = 0 /\ resource = 0 /\ ret = NULL
    /\ local_level = 0 /\ cache = NULL /\ found = NULL /\ owner = NULL
    /\ index = 0 /\ level = 0 /\ retval = 0 /\ gets = 0 /\ puts = 0
    /\ oob = FALSE /\ dups = 0 /\ first_hit = NULL /\ hits = {} /\ level_in = 0
    /\ tick = 0

Init ==
    /\ \E s \in Shapes : mem = Image(s) /\ tailw = s.tw
    /\ acpi_cpu_id \in CpuIds
    /\ leaves = << >>
    /\ Idle
    /\ NoResolverCheck

input_vars == << mem, tailw, acpi_cpu_id >>
resolver_vars == << f_length, f_ref, f_elen, f_ret, f_read >>
find_vars == << entry, lentry, leaf, node >>
level_vars == << number_of_levels, resource, ret, local_level, cache, first_hit, hits, level_in >>

----
(* The four public queries, up to their first loop.                        *)

\* the return of a public query without acpi_put_table()
Return_without_put(v) ==
    /\ retval' = v
    /\ pc' = "done"
    /\ UNCHANGED puts

\* acpi_put_table() and the return of a public query
Return(v) ==
    /\ retval' = v
    /\ puts' = puts + 1
    /\ pc' = "done"

\* a public query whose acpi_get_table() fails (ok is what it returned)
NoTable(v) ==
    /\ retval' = v
    /\ pc' = "done"
    /\ UNCHANGED << puts, gets, entry >>

\* acpi_find_processor_node(), lines 231-233
StartFind ==
    /\ entry' = ACPI_TABLE_PPTT_SIZE
    /\ pc' = "find"

\* lines 476-496, to the call of acpi_find_cache_levels()
acpi_find_last_cache_level ==
    /\ tick' = 1 - tick
    /\ pc = "idle"
    /\ query' = "last"
    /\ \E ok \in BOOLEAN :
         IF ok
         THEN gets' = gets + 1 /\ StartFind /\ UNCHANGED << retval, puts >>
         ELSE NoTable(0)
    /\ UNCHANGED << input_vars, leaves, level_arg, flag, lentry, leaf, node, cpu_node,
                    total_levels, level_vars, found, owner, index, level, oob, dups,
                    resolver_vars >>

\* lines 511-528, to the call of cache_setup_acpi_cpu()
cache_setup_acpi ==
    /\ tick' = 1 - tick
    /\ pc = "idle"
    /\ query' = "setup"
    /\ leaves' \in LeafLists
    /\ \E ok \in BOOLEAN :
         IF ok
         THEN gets' = gets + 1 /\ pc' = "slot" /\ UNCHANGED << retval, puts, entry >>
         ELSE NoTable(0 - ENOENT)
    /\ UNCHANGED << input_vars, level_arg, flag, lentry, leaf, node, cpu_node,
                    total_levels, level_vars, found, owner, index, level, oob, dups,
                    resolver_vars >>

\* lines 447-464 and 427-433, to the call of acpi_find_processor_node()
find_acpi_cpu_topology_tag(lv, fl) ==
    /\ tick' = 1 - tick
    /\ pc = "idle"
    /\ query' = "tag"
    /\ level_arg' = lv
    /\ flag' = fl
    /\ \E ok \in BOOLEAN :
         IF ok
         THEN gets' = gets + 1 /\ StartFind /\ UNCHANGED << retval, puts >>
         ELSE NoTable(0 - ENOENT)
    /\ UNCHANGED << input_vars, leaves, lentry, leaf, node, cpu_node,
                    total_levels, level_vars, found, owner, index, level, oob, dups,
                    resolver_vars >>

\* lines 548-551
find_acpi_cpu_topology ==
    \E lv \in 0..MaxLevelArg : find_acpi_cpu_topology_tag(lv, 0)

\* lines 566-570
find_acpi_cpu_topology_package ==
    find_acpi_cpu_topology_tag(PPTT_ABORT_PACKAGE, ACPI_PPTT_PHYSICAL_PACKAGE)

----
(* Processor Tree Navigator: the two linear scans.                         *)

find_reads(e) ==
    {e + OFF_LENGTH + 1} \cup
    (IF length(e) = 0 THEN {}
     ELSE {e + OFF_TYPE + 1} \cup
          (IF type(e) = ACPI_PPTT_TYPE_PROCESSOR THEN {e + OFF_PROCESSOR_ID + 4} ELSE {}))

\* lines 236-251: one turn of the loop, up to the call of acpi_pptt_leaf_node()
acpi_find_processor_node ==
    /\ tick' = 1 - tick
    /\ pc = "find"
    /\ IF entry + SUBTABLE_HEADER_SIZE < table_length
       THEN /\ oob' = (oob \/ Past(find_reads(entry)))
            /\ IF length(entry) = 0
               THEN node' = NULL /\ pc' = "node" /\ UNCHANGED << entry, lentry >>
               ELSE IF /\ type(entry) = ACPI_PPTT_TYPE_PROCESSOR
                       /\ acpi_cpu_id = acpi_processor_id(entry)
                    THEN /\ lentry' = ACPI_TABLE_PPTT_SIZE
                         /\ pc' = "leaf"
                         /\ UNCHANGED << entry, node >>
                    ELSE /\ entry' = entry + length(entry)
                         /\ pc' = "find"
                         /\ UNCHANGED << lentry, node >>
       ELSE node' = NULL /\ pc' = "node" /\ UNCHANGED << entry, lentry, oob >>
    /\ UNCHANGED << input_vars, leaves, query, level_arg, flag, leaf, cpu_node,
                    total_levels, level_vars, found, owner, index, level, retval,
                    gets, puts, dups, resolver_vars >>

\* the comparison of line 207 without the type test of line 206
names_parent_any_type(e, n) == parent(e) = n

\* lines 206-207: the record at e names the node at n as its parent
names_parent(e, n) ==
    /\ type(e) = ACPI_PPTT_TYPE_PROCESSOR
    /\ parent(e) = n

leaf_reads(e) ==
    {e + OFF_TYPE + 1} \cup
    (IF type(e) = ACPI_PPTT_TYPE_PROCESSOR THEN {e + OFF_PARENT + 4} ELSE {}) \cup
    (IF type(e) = ACPI_PPTT_TYPE_PROCESSOR /\ parent(e) = entry THEN {} ELSE {e + OFF_LENGTH + 1})

\* lines 191-213: one turn of the loop, for the node at entry
acpi_pptt_leaf_node ==
    /\ tick' = 1 - tick
    /\ pc = "leaf"
    /\ IF lentry + SUBTABLE_HEADER_SIZE < table_length
       THEN /\ oob' = (oob \/ Past(leaf_reads(lentry)))
            /\ IF names_parent(lentry, entry)
               THEN leaf' = 0 /\ pc' = "leafret" /\ UNCHANGED lentry
               ELSE /\ lentry' = lentry + length(lentry)
                    /\ pc' = "leaf"
                    /\ UNCHANGED leaf
       ELSE leaf' = 1 /\ pc' = "leafret" /\ UNCHANGED << lentry, oob >>
    /\ UNCHANGED << input_vars, leaves, query, level_arg, flag, entry, node, cpu_node,
                    total_levels, level_vars, found, owner, index, level, retval,
                    gets, puts, dups, resolver_vars >>

\* lines 245-250: after acpi_pptt_leaf_node() has returned
acpi_find_processor_node_leaf ==
    /\ tick' = 1 - tick
    /\ pc = "leafret"
    /\ IF leaf # 0
       THEN node' = entry /\ pc' = "node" /\ UNCHANGED << entry, oob >>
       ELSE /\ entry' = entry + length(entry)
            /\ oob' = (oob \/ Past({entry + OFF_LENGTH + 1}))
            /\ pc' = "find"
            /\ UNCHANGED node
    /\ UNCHANGED << input_vars, leaves, query, level_arg, flag, lentry, leaf, cpu_node,
                    total_levels, level_vars, found, owner, index, level, retval,
                    gets, puts, dups, resolver_vars >>

----
(* Cache Level Finder and Cache Chain Walker.                              *)

\* lines 270-290
acpi_cache_type(t) ==
    IF t = CACHE_TYPE_DATA THEN ACPI_PPTT_CACHE_TYPE_DATA
    ELSE IF t = CACHE_TYPE_INST THEN ACPI_PPTT_CACHE_TYPE_INSTR
    ELSE ACPI_PPTT_CACHE_TYPE_UNIFIED

\* the level and type arguments of the running acpi_find_cache_level() call:
\* 0, 0 from acpi_process_node() (line 178), the slot's from
\* acpi_find_cache_node() (lines 301, 309)
target_level == IF query = "setup" THEN leaves[index + 1].level ELSE 0
target_type == IF query = "setup" THEN acpi_cache_type(leaves[index + 1].type) ELSE 0

\* lines 140-143: acpi_find_cache_level(table_hdr, cpu_node, &total_levels, ...) begins
\* with *starting_level = sl
StartLevel(sl) ==
    /\ number_of_levels' = sl
    /\ resource' = 0
    /\ ret' = NULL
    /\ first_hit' = NULL
    /\ hits' = {}
    /\ level_in' = sl
    /\ pc' = "res"
    /\ UNCHANGED << local_level, cache >>

\* lines 146-162: one turn of the loop, up to the walker's loop
acpi_find_cache_level ==
    /\ tick' = 1 - tick
    /\ pc = "res"
    /\ LET res == acpi_get_pptt_resource(cpu_node, resource)
       IN  IF res # NULL
           THEN /\ resource' = resource + 1
                /\ oob' = (oob \/ Past(resource_reads(cpu_node, resource) \cup {res + OFF_TYPE + 1}))
                /\ IF type(res) # ACPI_PPTT_TYPE_CACHE
                   THEN /\ number_of_levels' = IF number_of_levels < 0 THEN 0 ELSE number_of_levels
                        /\ pc' = "res"
                        /\ UNCHANGED << local_level, cache >>
                   ELSE /\ local_level' = total_levels
                        /\ cache' = res
                        /\ pc' = "walk"
                        /\ UNCHANGED number_of_levels
                /\ UNCHANGED total_levels
           ELSE /\ oob' = (oob \/ Past(resource_reads(cpu_node, resource)))
                /\ total_levels' = IF number_of_levels > total_levels
                                   THEN number_of_levels ELSE total_levels
                /\ pc' = "lvl"
                /\ UNCHANGED << number_of_levels, resource, local_level, cache >>
    /\ UNCHANGED << input_vars, leaves, query, level_arg, flag, find_vars, cpu_node,
                    ret, first_hit, hits, level_in, found, owner, index, level,
                    retval, gets, puts, dups, resolver_vars >>

walk_reads(c, ll) ==
    (IF ll = target_level
     THEN {c + OFF_FLAGS + 4} \cup
          (IF BitAnd(flags(c), ACPI_PPTT_CACHE_TYPE_VALID) # 0
           THEN {c + OFF_ATTRIBUTES + 1} ELSE {})
     ELSE {})
    \cup {c + OFF_NEXT_LEVEL + 4} \cup fetch_reads(next_level_of_cache(c))

\* lines 106-125: one turn of the loop
acpi_pptt_walk_cache ==
    /\ tick' = 1 - tick
    /\ pc = "walk"
    /\ LET ll == IntInc(local_level)
           hit == /\ ll = target_level
                  /\ BitAnd(flags(cache), ACPI_PPTT_CACHE_TYPE_VALID) # 0
                  /\ BitAnd(attributes(cache), ACPI_PPTT_MASK_CACHE_TYPE) = target_type
           nxt == fetch_pptt_cache(next_level_of_cache(cache))
       IN  /\ local_level' = ll
           /\ oob' = (oob \/ Past(walk_reads(cache, ll)))
           /\ dups' = IF hit /\ ret # NULL /\ cache # ret THEN dups + 1 ELSE dups
           /\ ret' = IF hit THEN cache ELSE ret
           /\ first_hit' = IF hit /\ first_hit = NULL THEN cache ELSE first_hit
           /\ hits' = IF hit THEN hits \cup {cache} ELSE hits
           /\ cache' = nxt
           /\ IF nxt # NULL
              THEN pc' = "walk" /\ UNCHANGED number_of_levels
              ELSE /\ number_of_levels' = IF number_of_levels < ll THEN ll ELSE number_of_levels
                   /\ pc' = "res"
    /\ UNCHANGED << input_vars, leaves, query, level_arg, flag, find_vars, cpu_node,
                    total_levels, resource, level_in, found, owner, index, level,
                    retval, gets, puts, resolver_vars >>

----
(* Topology Resolver: counting the cache levels of a CPU.                  *)

\* lines 256-267 and 172-178: acpi_find_processor_node() has returned
acpi_find_cache_levels ==
    /\ tick' = 1 - tick
    /\ pc = "node"
    /\ query = "last"
    /\ IF node # NULL
       THEN /\ cpu_node' = node
            /\ total_levels' = 0
            /\ StartLevel(0)
            /\ UNCHANGED << retval, puts >>
       ELSE /\ Return(0)
            /\ UNCHANGED << cpu_node, total_levels, level_vars >>
    /\ UNCHANGED << input_vars, leaves, query, level_arg, flag, find_vars,
                    found, owner, index, level, gets, oob, dups, resolver_vars >>

\* lines 179-182 and 490-495: acpi_find_cache_level() has returned
acpi_process_node ==
    /\ tick' = 1 - tick
    /\ pc = "lvl"
    /\ query = "last"
    /\ LET up == fetch_pptt_node(parent(cpu_node))
       IN  /\ cpu_node' = up
           /\ oob' = (oob \/ Past({cpu_node + OFF_PARENT + 4} \cup fetch_reads(parent(cpu_node))))
           /\ IF up # NULL
              THEN StartLevel(total_levels) /\ UNCHANGED << retval, puts >>
              ELSE Return(total_levels) /\ UNCHANGED level_vars
    /\ UNCHANGED << input_vars, leaves, query, level_arg, flag, find_vars,
                    total_levels, found, owner, index, level, gets, dups, resolver_vars >>

----
(* Topology Resolver: filling the cache-info slots of a CPU.               *)

Has(fl, bit) == BitAnd(fl, bit) # 0

\* lines 336-344
write_policy(prev, fc) ==
    IF Has(flags(fc), ACPI_PPTT_WRITE_POLICY_VALID)
    THEN IF BitAnd(attributes(fc), ACPI_PPTT_MASK_WRITE_POLICY) = ACPI_PPTT_CACHE_POLICY_WT
         THEN CACHE_WRITE_THROUGH
         ELSE CACHE_WRITE_BACK
    ELSE prev

\* lines 345-358
allocation_type(prev, fc) ==
    IF Has(flags(fc), ACPI_PPTT_ALLOCATION_TYPE_VALID)
    THEN LET at == BitAnd(attributes(fc), ACPI_PPTT_MASK_ALLOCATION_TYPE)
         IN  IF at = ACPI_PPTT_CACHE_READ_ALLOCATE THEN BitOr(prev, CACHE_READ_ALLOCATE)
             ELSE IF at = ACPI_PPTT_CACHE_WRITE_ALLOCATE THEN BitOr(prev, CACHE_WRITE_ALLOCATE)
             ELSE BitOr(prev, CACHE_READ_ALLOCATE + CACHE_WRITE_ALLOCATE)
    ELSE prev

\* lines 323-359
update_cache_properties(this_leaf, found_cache, cn) ==
    [ this_leaf EXCEPT
        !.firmware_node = cn,
        !.size = IF Has(flags(found_cache), ACPI_PPTT_SIZE_PROPERTY_VALID)
                 THEN size(found_cache) ELSE @,
        !.coherency_line_size = IF Has(flags(found_cache), ACPI_PPTT_LINE_SIZE_VALID)
                                THEN line_size(found_cache) ELSE @,
        !.number_of_sets = IF Has(flags(found_cache), ACPI_PPTT_NUMBER_OF_SETS_VALID)
                           THEN number_of_sets(found_cache) ELSE @,
        !.ways_of_associativity = IF Has(flags(found_cache), ACPI_PPTT_ASSOCIATIVITY_VALID)
                                  THEN associativity(found_cache) ELSE @,
        !.attributes = allocation_type(write_policy(@, found_cache), found_cache) ]

update_reads(fc) ==
    {fc + OFF_FLAGS + 4}
    \cup (IF Has(flags(fc), ACPI_PPTT_SIZE_PROPERTY_VALID) THEN {fc + OFF_SIZE + 4} ELSE {})
    \cup (IF Has(flags(fc), ACPI_PPTT_LINE_SIZE_VALID) THEN {fc + OFF_LINE_SIZE + 2} ELSE {})
    \cup (IF Has(flags(fc), ACPI_PPTT_NUMBER_OF_SETS_VALID) THEN {fc + OFF_NUM_SETS + 4} ELSE {})
    \cup (IF Has(flags(fc), ACPI_PPTT_ASSOCIATIVITY_VALID) THEN {fc + OFF_ASSOCIATIVITY + 1} ELSE {})
    \cup (IF Has(flags(fc), ACPI_PPTT_WRITE_POLICY_VALID) \/ Has(flags(fc), ACPI_PPTT_ALLOCATION_TYPE_VALID)
          THEN {fc + OFF_ATTRIBUTES + 1} ELSE {})

\* lines 375-380 and 298-306, and 524-527 when the loop ends: the head of the
\* loop over the slots, up to the call of acpi_find_processor_node()
cache_setup_acpi_cpu ==
    /\ tick' = 1 - tick
    /\ pc = "slot"
    /\ IF index < Len(leaves)
       THEN /\ total_levels' = 0
            /\ found' = NULL
            /\ StartFind
            /\ UNCHANGED << retval, puts >>
       ELSE /\ Return(0)
            /\ UNCHANGED << total_levels, found, entry >>
    /\ UNCHANGED << input_vars, leaves, query, level_arg, flag, lentry, leaf, node,
                    cpu_node, level_vars, owner, index, level, gets, oob, dups,
                    resolver_vars >>

\* lines 306-310: acpi_find_processor_node() has returned
acpi_find_cache_node ==
    /\ tick' = 1 - tick
    /\ pc = "node"
    /\ query = "setup"
    /\ cpu_node' = node
    /\ IF node # NULL /\ found = NULL
       THEN StartLevel(total_levels)
       ELSE pc' = "cnode" /\ UNCHANGED level_vars
    /\ UNCHANGED << input_vars, leaves, query, level_arg, flag, find_vars,
                    total_levels, found, owner, index, level, retval, gets, puts,
                    oob, dups, resolver_vars >>

\* lines 309-315: acpi_find_cache_level() has returned
acpi_find_cache_node_up ==
    /\ tick' = 1 - tick
    /\ pc = "lvl"
    /\ query = "setup"
    /\ LET up == fetch_pptt_node(parent(cpu_node))
       IN  /\ found' = ret
           /\ owner' = cpu_node
           /\ cpu_node' = up
           /\ oob' = (oob \/ Past({cpu_node + OFF_PARENT + 4} \cup fetch_reads(parent(cpu_node))))
           /\ IF up # NULL /\ ret = NULL
              THEN StartLevel(total_levels)
              ELSE pc' = "cnode" /\ UNCHANGED level_vars
    /\ UNCHANGED << input_vars, leaves, query, level_arg, flag, find_vars,
                    total_levels, index, level, retval, gets, puts, dups, resolver_vars >>

\* lines 381-387: acpi_find_cache_node() has returned
cache_setup_acpi_cpu_update ==
    /\ tick' = 1 - tick
    /\ pc = "cnode"
    /\ IF found # NULL
       THEN /\ leaves' = [leaves EXCEPT ![index + 1] = update_cache_properties(@, found, owner)]
            /\ oob' = (oob \/ Past(update_reads(found)))
       ELSE UNCHANGED << leaves, oob >>
    /\ index' = index + 1
    /\ pc' = "slot"
    /\ UNCHANGED << input_vars, query, level_arg, flag, find_vars, cpu_node,
                    total_levels, level_vars, found, owner, level, retval, gets, puts,
                    dups, resolver_vars >>

----
(* Topology Resolver: topology tags.                                       *)

\* lines 433-436 and 442-444, 461-463: acpi_find_processor_node() has returned
topology_get_acpi_cpu_tag ==
    /\ tick' = 1 - tick
    /\ pc = "node"
    /\ query = "tag"
    /\ IF node # NULL
       THEN /\ cpu_node' = node
            /\ level' = level_arg
            /\ pc' = "pkg"
            /\ UNCHANGED << retval, puts >>
       ELSE /\ Return(0 - ENOENT)
            /\ UNCHANGED << cpu_node, level >>
    /\ UNCHANGED << input_vars, leaves, query, level_arg, flag, find_vars,
                    total_levels, level_vars, found, owner, index, gets, oob, dups,
                    resolver_vars >>

\* lines 409-419: one turn of the loop
acpi_find_processor_package_id ==
    /\ tick' = 1 - tick
    /\ pc = "pkg"
    /\ IF cpu_node # NULL /\ level # 0
       THEN IF BitAnd(flags(cpu_node), flag) # 0
            THEN /\ pc' = "tag"
                 /\ oob' = (oob \/ Past({cpu_node + OFF_FLAGS + 4}))
                 /\ UNCHANGED << cpu_node, level >>
            ELSE LET prev_node == fetch_pptt_node(parent(cpu_node))
                 IN  /\ oob' = (oob \/ Past({cpu_node + OFF_FLAGS + 4, cpu_node + OFF_PARENT + 4}
                                            \cup fetch_reads(parent(cpu_node))))
                     /\ IF prev_node = NULL
                        THEN pc' = "tag" /\ UNCHANGED << cpu_node, level >>
                        ELSE /\ cpu_node' = prev_node
                             /\ level' = level - 1
                             /\ pc' = "pkg"
       ELSE pc' = "tag" /\ UNCHANGED << cpu_node, level, oob >>
    /\ UNCHANGED << input_vars, leaves, query, level_arg, flag, find_vars,
                    total_levels, level_vars, found, owner, index, retval, gets, puts,
                    dups, resolver_vars >>

\* lines 437-440 with the level test dropped: always the native id
tag_of_always_id(n) == acpi_processor_id(n)

\* lines 437-440: the tag of the node n the ascent ended on
tag_of(n) == IF level_arg = 0 THEN acpi_processor_id(n) ELSE n

\* lines 437-440 and 458-463: acpi_find_processor_package_id() has returned
topology_get_acpi_cpu_tag_return ==
    /\ tick' = 1 - tick
    /\ pc = "tag"
    /\ Return(tag_of(cpu_node))
    /\ oob' = (oob \/ (level_arg = 0 /\ Past({cpu_node + OFF_PROCESSOR_ID + 4})))
    /\ UNCHANGED << input_vars, leaves, query, level_arg, flag, find_vars, cpu_node,
                    total_levels, level_vars, found, owner, index, level, gets, dups,
                    resolver_vars >>

----
Next ==
    \/ acpi_find_last_cache_level
    \/ cache_setup_acpi
    \/ find_acpi_cpu_topology
    \/ find_acpi_cpu_topology_package
    \/ acpi_find_processor_node
    \/ acpi_pptt_leaf_node
    \/ acpi_find_processor_node_leaf
    \/ acpi_find_cache_levels
    \/ acpi_find_cache_level
    \/ acpi_pptt_walk_cache
    \/ acpi_process_node
    \/ cache_setup_acpi_cpu
    \/ acpi_find_cache_node
    \/ acpi_find_cache_node_up
    \/ cache_setup_acpi_cpu_update
    \/ topology_get_acpi_cpu_tag
    \/ acpi_find_processor_package_id
    \/ topology_get_acpi_cpu_tag_return

Spec == Init /\ [][Next]_vars

\* the code runs on: a query that can take a step takes it
FairSpec == Spec /\ WF_vars(Next)

----
(* The Subtable Resolver alone, over tables of any u32 length.  Of the     *)
(* table the resolver reads table_hdr->length and, once the first two      *)
(* checks have passed, the byte at entry->length.                          *)

TOP == Limb - 1

ResolverLengths ==
    { U32(ACPI_TABLE_PPTT_SIZE), U32(IMAGE_END), [hi |-> 1, lo |-> 0],
      [hi |-> TOP, lo |-> TOP - 255], [hi |-> TOP, lo |-> TOP] }

ResolverRefs ==
    { U32(r) : r \in 0..3 }
    \cup { U32(r) : r \in (ACPI_TABLE_PPTT_SIZE - 3)..ACPI_TABLE_PPTT_SIZE }
    \cup { U32(r) : r \in (IMAGE_END - 25)..(IMAGE_END - 22) }
    \cup { U32(r) : r \in (IMAGE_END - 3)..IMAGE_END }
    \cup { [hi |-> 0, lo |-> TOP], [hi |-> 1, lo |-> 0] }
    \cup { [hi |-> TOP, lo |-> l] : l \in {TOP - 300, TOP - 255, TOP - 24, TOP - 2, TOP - 1, TOP} }

ResolverEntryLengths == {0, 1, 2, PPTT_PROCESSOR_SIZE, PPTT_CACHE_SIZE, 255}

ResolverInit ==
    /\ mem = Image(Base) /\ tailw = 0 /\ acpi_cpu_id = 1
    /\ leaves = << >>
    /\ Idle
    /\ f_length \in ResolverLengths
    /\ f_ref \in ResolverRefs
    /\ f_elen \in ResolverEntryLengths
    /\ f_ret = "none"
    /\ f_read = FALSE

\* lines 34-52
fetch_pptt_subtable_call ==
    /\ tick' = 1 - tick
    /\ f_ret = "none"
    /\ f_read' = header_in_table(f_length, f_ref)
    /\ f_ret' = IF subtable_in_table(f_length, f_ref, f_elen) THEN "entry" ELSE "null"
    /\ UNCHANGED << input_vars, leaves, query, level_arg, flag, pc, find_vars, cpu_node,
                    total_levels, level_vars, found, owner, index, level, retval,
                    gets, puts, oob, dups, f_length, f_ref, f_elen >>

ResolverNext == fetch_pptt_subtable_call

ResolverSpec == ResolverInit /\ [][ResolverNext]_vars

----
(* What the claims speak of, stated over the table and not through the     *)
(* code: sums are sums of integers.                                        *)

\* the record at offset ref lies in the table
InTable(ref) ==
    /\ ref >= SUBTABLE_HEADER_SIZE
    /\ ref + SUBTABLE_HEADER_SIZE <= table_length
    /\ ref + length(ref) <= table_length

\* the records a linear scan from e meets, in table order, up to the end of
\* the table or to a zero-length record (which it cannot pass)
RECURSIVE Scan(_)
Scan(e) ==
    IF e + SUBTABLE_HEADER_SIZE < table_length
    THEN IF length(e) = 0 THEN << e >> ELSE << e >> \o Scan(e + length(e))
    ELSE << >>

Records == Scan(ACPI_TABLE_PPTT_SIZE)

Range(q) == { q[i] : i \in 1..Len(q) }

HasZeroLength == \E e \in Range(Records) : length(e) = 0

\* the fixed fields of the record's kind, and the resource references of a
\* processor record
MinLength(e) ==
    IF type(e) = ACPI_PPTT_TYPE_PROCESSOR
    THEN PPTT_PROCESSOR_SIZE + 4 * number_of_priv_resources(e)
    ELSE IF type(e) = ACPI_PPTT_TYPE_CACHE THEN PPTT_CACHE_SIZE
    ELSE SUBTABLE_HEADER_SIZE

\* well-formed records tile the table from e to its end
RECURSIVE TilesFrom(_)
TilesFrom(e) ==
    \/ e = table_length
    \/ /\ e + SUBTABLE_HEADER_SIZE <= table_length
       /\ length(e) >= SUBTABLE_HEADER_SIZE
       /\ e + length(e) <= table_length
       /\ length(e) >= MinLength(e)
       /\ TilesFrom(e + length(e))

Tiled == Len(mem) = table_length /\ TilesFrom(ACPI_TABLE_PPTT_SIZE)

\* the records of a tiled table
RECURSIVE TilesOf(_)
TilesOf(e) == IF e >= table_length THEN {} ELSE {e} \cup TilesOf(e + length(e))

\* some Processor record met by the scan names p as its parent
Named(p) ==
    \E e \in Range(Records) : type(e) = ACPI_PPTT_TYPE_PROCESSOR /\ parent(e) = p

\* the first record of the scan, before any zero-length record, that is a
\* Processor record with native id c and is a leaf
FirstLeaf(c) ==
    LET ok(i) == /\ \A j \in 1..i : length(Records[j]) # 0
                 /\ type(Records[i]) = ACPI_PPTT_TYPE_PROCESSOR
                 /\ acpi_processor_id(Records[i]) = c
                 /\ ~Named(Records[i])
    IN  IF \E i \in 1..Len(Records) : ok(i)
        THEN Records[CHOOSE i \in 1..Len(Records) : ok(i) /\ \A j \in 1..(i - 1) : ~ok(j)]
        ELSE NULL

\* the node reached from n by at most l hops along parent links, stopping at
\* a node whose flags contain f or whose parent does not resolve
RECURSIVE Ascend(_, _, _)
Ascend(n, l, f) ==
    IF l = 0 \/ BitAnd(flags(n), f) # 0 \/ ~InTable(parent(n)) THEN n
    ELSE Ascend(parent(n), l - 1, f)

\* the number of hops of that ascent
RECURSIVE Hops(_, _, _)
Hops(n, l, f) ==
    IF l = 0 \/ BitAnd(flags(n), f) # 0 \/ ~InTable(parent(n)) THEN 0
    ELSE 1 + Hops(parent(n), l - 1, f)

\* the i-th private resource reference of the node at n
ResourceRef(n, i) == Rd32(n + PPTT_PROCESSOR_SIZE + 4 * i)

\* the number of records on the next-level chain that starts at c
RECURSIVE ChainLength(_, _)
ChainLength(c, seen) ==
    IF ~InTable(c) \/ c \in seen THEN 0
    ELSE 1 + ChainLength(next_level_of_cache(c), seen \cup {c})

\* what the resource at ref adds to the running level r
Depth(ref, r) ==
    IF InTable(ref) /\ type(ref) = ACPI_PPTT_TYPE_CACHE
    THEN r + ChainLength(ref, {}) ELSE 0

SetMax(S, d) == IF S = {} THEN d ELSE CHOOSE m \in S : \A k \in S : k <= m

----
(* C1.  For every table and every 32-bit offset the resolver returns a     *)
(* record if and only if  offset >= sizeof(header),  offset +              *)
(* sizeof(header) <= table.length  and  offset + record.length <=          *)
(* table.length  (sums of integers, not of u32), and it reads the record's *)
(* length only when the first two hold.                                    *)

C1_Bound1 == ~(f_ref.hi = 0 /\ f_ref.lo < SUBTABLE_HEADER_SIZE)
C1_Bound2 == ~Gt(Add64(f_ref, SUBTABLE_HEADER_SIZE), f_length)
C1_Bound3 == ~Gt(Add64(f_ref, f_elen), f_length)

C1_ResolverBounds ==
    f_ret # "none" =>
        /\ (f_ret = "entry") <=> (C1_Bound1 /\ C1_Bound2 /\ C1_Bound3)
        /\ f_read => (C1_Bound1 /\ C1_Bound2)

----
(* C2.  During a public query every byte the code reads lies at a table    *)
(* offset below table_hdr->length, whatever the records declare.           *)

C2_ReadsInTable == ~oob

----
(* C3.  Every traversal terminates on every table: each public query       *)
(* returns.                                                                *)

C3_Terminates == <>(pc = "done")

----
(* C4.  In a table whose records tile the area after the table header, the *)
(* leaf test of a processor record p answers "leaf" exactly when no        *)
(* Processor record of the table other than p names p as its parent;       *)
(* records of other types never make p a non-leaf.                         *)
C4_LeafIffNoOtherChild ==
    (pc = "leafret" /\ Tiled) =>
        (leaf # 0 <=>
            ~\E e \in TilesOf(ACPI_TABLE_PPTT_SIZE) \ {entry} :
                type(e) = ACPI_PPTT_TYPE_PROCESSOR /\ parent(e) = entry)

(* C4, amended.  As above, with p itself among the Processor records that  *)
(* are compared: a record that names itself as parent is not a leaf.       *)
C4_LeafIffNoChild ==
    (pc = "leafret" /\ Tiled) =>
        (leaf # 0 <=>
            ~\E e \in TilesOf(ACPI_TABLE_PPTT_SIZE) :
                type(e) = ACPI_PPTT_TYPE_PROCESSOR /\ parent(e) = entry)

\* C4: the test has answered "leaf" for a record whose offset stands at the
\* parent position of a record of another type
C4_Witness ==
    /\ pc = "leafret" /\ Tiled /\ leaf # 0
    /\ \E e \in TilesOf(ACPI_TABLE_PPTT_SIZE) :
           type(e) # ACPI_PPTT_TYPE_PROCESSOR /\ parent(e) = entry

----
(* C5.  The lookup of a native id returns the first record in table order  *)
(* that is a Processor record with that id and a leaf; a zero-length       *)
(* record ends the lookup, which then returns whatever was decided before  *)
(* it (nothing, when no leaf match precedes it).                           *)
C5_FindReturnsFirstLeaf ==
    (pc = "find" /\ entry = ACPI_TABLE_PPTT_SIZE)
        ~> (pc = "node" /\ node = FirstLeaf(acpi_cpu_id))

----
(* C6.  A topology-tag query on a CPU whose leaf record is found makes at  *)
(* most `level` hops along parent links, stops early at a node with the    *)
(* stop flag or an unresolvable parent, and returns the native id of the   *)
(* final node at level 0 and its table offset at a higher level; two found *)
(* CPUs get the same tag exactly when their ascents end on the same node.  *)
C6_TopologyTag ==
    (pc = "done" /\ query = "tag" /\ node # NULL) =>
        LET end(n) == Ascend(n, level_arg, flag)
            tag(n) == IF level_arg = 0 THEN acpi_processor_id(end(n)) ELSE end(n)
            found_cpu(c) == FirstLeaf(c) # NULL /\ ~HasZeroLength
        IN  /\ node = FirstLeaf(acpi_cpu_id)
            /\ retval = tag(node)
            /\ level_arg - level = Hops(node, level_arg, flag)
            /\ level >= 0
            /\ \A c \in CpuIds :
                   found_cpu(c) =>
                       (tag(FirstLeaf(c)) = retval <=> end(FirstLeaf(c)) = end(node))

\* C6: a package query has returned after all of its 255 hops, which only a
\* cycle of parent links allows
C6_Witness ==
    /\ pc = "done" /\ query = "tag" /\ node # NULL
    /\ level_arg = PPTT_ABORT_PACKAGE /\ level = 0

----
(* C7.  After a slot is updated from a cache record, each of its fields    *)
(* holds the record's value if the record's validity flag for it is set    *)
(* and its previous value otherwise; the write-policy bits and the         *)
(* allocation bits of the attributes are each such a field: a record       *)
(* without ALLOCATION_TYPE_VALID leaves the allocation bits as they were,  *)
(* one with it sets the record's allocation bits, and exactly those when   *)
(* the write policy is valid too.                                          *)
InitialLeaves ==
    CHOOSE l \in LeafLists : \A i \in 1..Len(l) : l[i].type = leaves[i].type

PolicyBits(a) == BitAnd(a, CACHE_WRITE_THROUGH + CACHE_WRITE_BACK)
AllocBits(a) == BitAnd(a, CACHE_READ_ALLOCATE + CACHE_WRITE_ALLOCATE)

C7_OnlyValidFieldsWritten ==
    (pc = "slot" /\ index > 0 /\ found # NULL) =>
        LET s == leaves[index]
            p == InitialLeaves[index]
            f == flags(found)
            at == BitAnd(attributes(found), ACPI_PPTT_MASK_ALLOCATION_TYPE)
            alloc == IF at = ACPI_PPTT_CACHE_READ_ALLOCATE THEN CACHE_READ_ALLOCATE
                     ELSE IF at = ACPI_PPTT_CACHE_WRITE_ALLOCATE THEN CACHE_WRITE_ALLOCATE
                     ELSE CACHE_READ_ALLOCATE + CACHE_WRITE_ALLOCATE
        IN  /\ s.size = IF Has(f, ACPI_PPTT_SIZE_PROPERTY_VALID) THEN size(found) ELSE p.size
            /\ s.coherency_line_size =
                   IF Has(f, ACPI_PPTT_LINE_SIZE_VALID) THEN line_size(found)
                   ELSE p.coherency_line_size
            /\ s.number_of_sets =
                   IF Has(f, ACPI_PPTT_NUMBER_OF_SETS_VALID) THEN number_of_sets(found)
                   ELSE p.number_of_sets
            /\ s.ways_of_associativity =
                   IF Has(f, ACPI_PPTT_ASSOCIATIVITY_VALID) THEN associativity(found)
                   ELSE p.ways_of_associativity
            /\ PolicyBits(s.attributes) =
                   IF Has(f, ACPI_PPTT_WRITE_POLICY_VALID)
                   THEN IF BitAnd(attributes(found), ACPI_PPTT_MASK_WRITE_POLICY)
                             = ACPI_PPTT_CACHE_POLICY_WT
                        THEN CACHE_WRITE_THROUGH ELSE CACHE_WRITE_BACK
                   ELSE PolicyBits(p.attributes)
            /\ IF Has(f, ACPI_PPTT_ALLOCATION_TYPE_VALID)
               THEN /\ BitAnd(AllocBits(s.attributes), alloc) = alloc
                    /\ Has(f, ACPI_PPTT_WRITE_POLICY_VALID) => AllocBits(s.attributes) = alloc
               ELSE AllocBits(s.attributes) = AllocBits(p.attributes)

----
(* C8.  When two different cache records reachable from one processor node *)
(* match the requested level and type, a diagnostic is emitted and the     *)
(* search returns the first match it met.                                  *)
C8_FirstMatchKept ==
    (pc = "lvl" /\ Cardinality(hits) >= 2) => (dups >= 1 /\ ret = first_hit)

----
(* C9.  A query that fails to get the table, or whose native id matches no *)
(* leaf Processor record, returns its not-found result (0 for the count of *)
(* cache levels, -ENOENT for the others), has released the table as often  *)
(* as it got it, and has written no slot.                                  *)
NotFound(q) == IF q = "last" THEN 0 ELSE 0 - ENOENT

C9_NotFound ==
    (pc = "done" /\ (gets = 0 \/ FirstLeaf(acpi_cpu_id) = NULL)) =>
        /\ retval = NotFound(query)
        /\ puts = gets
        /\ query = "setup" => leaves \in LeafLists

(* C9, amended.  As above, except that the slot-filling query returns 0    *)
(* whenever it got the table, also when no leaf record matches.            *)
C9_NotFoundSetupZero ==
    (pc = "done" /\ (gets = 0 \/ FirstLeaf(acpi_cpu_id) = NULL)) =>
        /\ retval = IF query = "setup" /\ gets # 0 THEN 0 ELSE NotFound(query)
        /\ puts = gets
        /\ gets <= 1
        /\ query = "setup" => leaves \in LeafLists

\* C9: the slot-filling query has returned with the table in hand and no
\* leaf record for the CPU
C9_Witness ==
    /\ pc = "done" /\ query = "setup" /\ gets = 1
    /\ FirstLeaf(acpi_cpu_id) = NULL

----
(* C10.  A call of the level finder on a processor node with running level *)
(* r leaves the running level at the greatest of r and r + the length of   *)
(* the next-level chain of each resource of the node that resolves to a    *)
(* cache record; the running level never decreases.                        *)
Levels(n, r, count) ==
    SetMax({ Depth(ResourceRef(n, i), r) : i \in 0..(count - 1) } \cup {r}, r)

C10_MaxOverResources ==
    LET n == number_of_priv_resources(cpu_node)
        refs == { ResourceRef(cpu_node, i) : i \in 0..(n - 1) }
    IN  (pc = "lvl" /\ Levels(cpu_node, level_in, n) <= IntMax) =>
            /\ total_levels = SetMax({ Depth(ref, level_in) : ref \in { x \in refs : InTable(x) } }
                                     \cup {level_in}, level_in)
            /\ total_levels >= level_in

\* the index of the first resource of the node at n that does not resolve
RECURSIVE FirstUnresolved(_, _)
FirstUnresolved(n, i) ==
    IF i < number_of_priv_resources(n) /\ InTable(ResourceRef(n, i))
    THEN FirstUnresolved(n, i + 1) ELSE i

(* C10, amended.  As above, over the resources that come before the first  *)
(* resource reference that does not resolve.                               *)
C10_MaxOverLeadingResources ==
    LET k == FirstUnresolved(cpu_node, 0)
    IN  (pc = "lvl" /\ Levels(cpu_node, level_in, k) <= IntMax) =>
            /\ total_levels = Levels(cpu_node, level_in, k)
            /\ total_levels >= level_in

\* C10: the finder has returned for a node whose first reference does not
\* resolve and whose second is a cache record
C10_Witness ==
    /\ pc = "lvl"
    /\ FirstUnresolved(cpu_node, 0) = 0
    /\ number_of_priv_resources(cpu_node) > 1
    /\ InTable(ResourceRef(cpu_node, 1))
    /\ type(ResourceRef(cpu_node, 1)) = ACPI_PPTT_TYPE_CACHE
    /\ total_levels = level_in

====
